---- MODULE Spec2Model ----
(***************************************************************************)
(* Model of .github/scripts/telegram_notify.py: one run of main(), which   *)
(* reads the CI environment, classifies the event, formats one message     *)
(* and posts it once to the Telegram Bot API.                              *)
(*                                                                         *)
(* Representation of Python values                                         *)
(*   str        a sequence of tokens; a token is a one-character string    *)
(*              ("a", "<", "\n") or a word that stands for a fixed run of  *)
(*              ordinary characters ("pull_request", a placeholder value). *)
(*              Words are never sliced and hold no HTML-special character. *)
(*   Optional   os.getenv's result: [present, v]; None is NoneVal.         *)
(*   message    the formatted f-string as a sequence of segments           *)
(*              [k, s]: k = "lit" for the template's own text, "text" for  *)
(*              an interpolated text span, "href" for the value            *)
(*              interpolated inside href="...".                            *)
(* The em dash and the arrow of the templates are written "--" and "->".   *)
(***************************************************************************)
EXTENDS Integers, Sequences, FiniteSets, TLC

VARIABLES
    env,            \* os.environ without PUSH_COMMITS: name -> [present, v]
    push_commits,   \* os.environ's PUSH_COMMITS, described by what json.loads makes of it
    seen,           \* the variables os.getenv was asked for so far
    pc,             \* position in main()
    bot_token, chat_id, thread_id, repo, actor, event_type,  \* main's locals
    kind,           \* the branch of main's if/elif chain that was taken
    commits_list,   \* format_push_message's local commits_list
    message,        \* main's local message
    posts,          \* the HTTP POSTs attempted so far (urlopen calls)
    response,       \* what the provider did with the POST
    success,        \* send_telegram_message's return value
    uncaught,       \* the exception that left main(), or "none"
    exit_code       \* the process exit status, -1 while running

vars == <<env, push_commits, seen, pc, bot_token, chat_id, thread_id, repo, actor,
          event_type, kind, commits_list, message, posts, response, success,
          uncaught, exit_code>>

\* ---------------------------------------------------------------- bounds
\* Longest array of well-formed commits in PUSH_COMMITS.
MaxCommits == 11
\* Longest array holding malformed entries, and longest JSON string payload.
MaxBad == 2
\* Longest free text holding HTML-special characters.
MaxTextLen == 2

\* ------------------------------------------------------ program constants
\* commits[:10]
CommitLimit == 10
\* commit.get('id', '')[:7]
ShaLen == 7

\* ---------------------------------------------------------------- strings
Min(a, b) == IF a <= b THEN a ELSE b

\* s[:n] on a str
Prefix(s, n) == SubSeq(s, 1, Min(n, Len(s)))

RECURSIVE Concat(_)
\* "".join(parts)
Concat(parts) ==
    IF parts = <<>> THEN <<>> ELSE Head(parts) \o Concat(Tail(parts))

\* html.escape(s, quote=True): one character at a time,
\* & < > " ' become &amp; &lt; &gt; &quot; &#x27;
EscapeChar(c) ==
    CASE c = "&"  -> <<"&", "a", "m", "p", ";">>
      [] c = "<"  -> <<"&", "l", "t", ";">>
      [] c = ">"  -> <<"&", "g", "t", ";">>
      [] c = "\"" -> <<"&", "q", "u", "o", "t", ";">>
      [] c = "'"  -> <<"&", "#", "x", "2", "7", ";">>
      [] OTHER    -> <<c>>

escape(s) == Concat([i \in 1..Len(s) |-> EscapeChar(s[i])])

\* message.replace('\n', ' ')
ReplaceNewlines(s) == [i \in 1..Len(s) |-> IF s[i] = "\n" THEN " " ELSE s[i]]

\* ------------------------------------------------------- message segments
Lit(w)  == [k |-> "lit",  s |-> <<w>>]
Text(s) == [k |-> "text", s |-> s]
Href(s) == [k |-> "href", s |-> s]

\* ------------------------------------------------------------- formatters
get_pr_status(action, merged) ==
    IF action = <<"closed">> /\ merged THEN <<"merged">>
    ELSE IF action = <<"synchronize">> THEN <<"updated">>
    ELSE action

format_pr_message(p_repo, p_actor, pr_num, pr_title, pr_url, base_ref, head_ref, status) ==
    << Lit("<b>PR "), Text(escape(status)), Lit(":</b> <a href=\""), Href(pr_url),
       Lit("\">#"), Text(escape(pr_num)), Lit("</a> -- "), Text(escape(pr_title)),
       Lit("\nRepo: "), Text(escape(p_repo)),
       Lit("\nBy: "), Text(escape(p_actor)),
       Lit("\n"), Text(escape(head_ref)), Lit(" -> "), Text(escape(base_ref)) >>

format_issue_message(p_repo, p_actor, issue_num, issue_title, issue_url, status) ==
    << Lit("<b>Issue "), Text(escape(status)), Lit(":</b> <a href=\""), Href(issue_url),
       Lit("\">#"), Text(escape(issue_num)), Lit("</a> -- "), Text(escape(issue_title)),
       Lit("\nRepo: "), Text(escape(p_repo)),
       Lit("\nBy: "), Text(escape(p_actor)) >>

format_workflow_message(p_repo, p_actor, workflow_name, conclusion, p_event_type, branch, run_url) ==
    << Lit("<b>Workflow:</b> "), Text(escape(workflow_name)),
       Lit("\nRepo: "), Text(escape(p_repo)),
       Lit("\nBranch: "), Text(escape(branch)),
       Lit("\nBy: "), Text(escape(p_actor)),
       Lit("\nEvent: "), Text(escape(p_event_type)),
       Lit("\nStatus: <b>"), Text(escape(conclusion)),
       Lit("</b>\n<a href=\""), Href(run_url), Lit("\">Open run</a>") >>

\* ------------------------------------------------- JSON values (json.loads)
\* A value found in a commit object's field.  t is its JSON type; "absent"
\* is a missing key.  "zero" is the number 0, "number" a non-zero number,
\* "array" the empty array [], "object" the empty object {}.
JAbsent   == [t |-> "absent", s |-> <<>>]
JNull     == [t |-> "null",   s |-> <<>>]
JZero     == [t |-> "zero",   s |-> <<>>]
JNumber   == [t |-> "number", s |-> <<>>]
JArray    == [t |-> "array",  s |-> <<>>]
JObject   == [t |-> "object", s |-> <<>>]
JStr(s)   == [t |-> "string", s |-> s]

\* The "author" field: an object with optional username and name, or a
\* value of another type.
Author(u, n) == [t |-> "object", username |-> u, name |-> n]
AuthorOfType(ty) == [t |-> ty, username |-> JAbsent, name |-> JAbsent]

\* An entry of the commits array.  shape is the entry's JSON type; the
\* fields are read only when it is an object.
Commit(i, m, a) == [shape |-> "object", id |-> i, message |-> m, author |-> a]
EntryOfType(ty) ==
    [shape |-> ty, id |-> JAbsent, message |-> JAbsent, author |-> AuthorOfType("absent")]

\* PUSH_COMMITS as os.getenv and json.loads see it: unset, the empty
\* string, text json.loads rejects, or text it parses to a value of type t
\* (items: the entries of an array, the characters of a string).
PayloadAbsent  == [present |-> FALSE, text |-> "empty",   t |-> "none", items |-> <<>>]
PayloadEmpty   == [present |-> TRUE,  text |-> "empty",   t |-> "none", items |-> <<>>]
PayloadInvalid == [present |-> TRUE,  text |-> "invalid", t |-> "none", items |-> <<>>]
PayloadJson(ty, items) == [present |-> TRUE, text |-> "json", t |-> ty, items |-> items]

\* Python truthiness of a field value that .get returned
JTruthy(v) == (v.t = "string" /\ v.s # <<>>) \/ v.t = "number"

\* ------------------------------------------------------- push formatter
ErrorLine     == << Lit("-- error parsing commits --") >>
NoCommitsLine == << Lit("-- no commit messages --") >>

\* f"https://github.com/{repo}/commit/{full_sha}"
CommitUrl(p_repo, full_sha) ==
    <<"https://github.com/">> \o p_repo \o <<"/commit/">> \o full_sha

\* commit.get('id', '') formatted by the f-string: a str as it is, [] as "[]"
IdText(idv) == IF idv.t = "array" THEN <<"[", "]">> ELSE idv.s

\* commit.get('author', {}).get('username') or ....get('name') or 'unknown'
AuthorValue(a) ==
    IF a.t = "absent" THEN JStr(<<"unknown">>)
    ELSE IF JTruthy(a.username) THEN a.username
    ELSE IF JTruthy(a.name) THEN a.name
    ELSE JStr(<<"unknown">>)

\* One pass of the loop body, lines 85-94, on entry c.  exc is "none", or
\* the exception the body raises: "TypeError" (KeyError on an interpreter
\* where dict[:7] raises that) is caught by line 95, "AttributeError" is not.
CommitLine(p_repo, c) ==
    LET raise(e) == [exc |-> e, line |-> <<>>]
    IN  IF c.shape # "object" THEN raise("AttributeError")            \* commit.get
        ELSE IF c.id.t \in {"null", "zero", "number", "object"}
             THEN raise("TypeError")                                  \* ...[:7]
        ELSE IF c.message.t \notin {"absent", "string"}
             THEN raise("AttributeError")                             \* .replace
        ELSE IF c.author.t \notin {"absent", "object"}
             THEN raise("AttributeError")                             \* .get
        ELSE IF AuthorValue(c.author).t # "string"
             THEN raise("AttributeError")                             \* escape(author)
        ELSE [exc  |-> "none",
              line |-> << Lit("- <a href=\""),
                          Href(CommitUrl(p_repo, IdText(c.id))),
                          Lit("\">"),
                          Text(IF c.id.t = "array" THEN IdText(c.id)
                               ELSE Prefix(c.id.s, ShaLen)),
                          Lit("</a> -- "),
                          Text(escape(ReplaceNewlines(c.message.s))),
                          Lit(" (by "),
                          Text(escape(AuthorValue(c.author).s)),
                          Lit(")") >>]

RECURSIVE RenderCommits(_, _, _)
\* for commit in commits[:10]: ... commits_list.append(...)
RenderCommits(p_repo, items, acc) ==
    IF items = <<>> THEN [exc |-> "none", lines |-> acc]
    ELSE LET r == CommitLine(p_repo, Head(items))
         IN  IF r.exc # "none" THEN [exc |-> r.exc, lines |-> acc]
             ELSE RenderCommits(p_repo, Tail(items), Append(acc, r.line))

\* mutant: the slice is dropped, every commit is rendered
FirstCommitsUnlimited(items) == items

\* commits[:10]
FirstCommits(items) == SubSeq(items, 1, Min(CommitLimit, Len(items)))

\* mutant: an unset PUSH_COMMITS is reported as a parse error
ParseCommitsAbsentIsError(p_repo, commits_data) ==
    IF ~commits_data.present THEN [exc |-> "none", lines |-> <<ErrorLine>>]
    ELSE IF commits_data.text = "empty" THEN [exc |-> "none", lines |-> <<NoCommitsLine>>]
    ELSE IF commits_data.text = "invalid" \/ commits_data.t \notin {"array", "string"}
         THEN [exc |-> "none", lines |-> <<ErrorLine>>]
    ELSE LET r == RenderCommits(p_repo, SubSeq(commits_data.items, 1,
                                                Min(CommitLimit, Len(commits_data.items))), <<>>)
         IN  IF r.exc = "TypeError" THEN [exc |-> "none", lines |-> <<ErrorLine>>]
             ELSE IF r.exc = "none"
                  THEN [exc |-> "none",
                        lines |-> IF r.lines = <<>> THEN <<NoCommitsLine>> ELSE r.lines]
             ELSE [exc |-> r.exc, lines |-> <<>>]

\* lines 79-99: the value of commits_list, or the exception that escapes
ParseCommits(p_repo, commits_data) ==
    LET done(l) == [exc |-> "none", lines |-> IF l = <<>> THEN <<NoCommitsLine>> ELSE l]
    IN  IF ~commits_data.present \/ commits_data.text = "empty" THEN done(<<>>)
        ELSE IF commits_data.text = "invalid" THEN done(<<ErrorLine>>)
        ELSE IF commits_data.t \notin {"array", "string"} THEN done(<<ErrorLine>>)
        ELSE LET r == RenderCommits(p_repo, FirstCommits(commits_data.items), <<>>)
             IN  IF r.exc = "TypeError" THEN done(<<ErrorLine>>)
                 ELSE IF r.exc = "none" THEN done(r.lines)
                 ELSE [exc |-> r.exc, lines |-> <<>>]

RECURSIVE JoinLines(_)
\* '\n'.join(commits_list)
JoinLines(lines) ==
    IF lines = <<>> THEN <<>>
    ELSE IF Len(lines) = 1 THEN Head(lines)
    ELSE Head(lines) \o <<Lit("\n")>> \o JoinLines(Tail(lines))

format_push_message(p_repo, p_actor, branch, commits_data) ==
    LET r == ParseCommits(p_repo, commits_data)
    IN  [exc   |-> r.exc,
         lines |-> r.lines,
         msg   |-> IF r.exc # "none" THEN <<>>
                   ELSE << Text(escape(p_actor)), Lit(" just pushed to branch "),
                           Text(escape(branch)), Lit(" of "), Text(escape(p_repo)),
                           Lit(":\n") >> \o JoinLines(r.lines)]

\* ------------------------------------------------------------ environment
\* The environment of a run is fixed before it starts, and the run learns
\* it one os.getenv call at a time.  env holds what the calls so far
\* returned, seen the names they asked for; the value of a variable is
\* drawn when the run first asks for it, so a variable the run never reads
\* stands for every value it may have.
NoneVal      == [present |-> FALSE, v |-> <<>>]
EmptyVal     == [present |-> TRUE,  v |-> <<>>]
Value(s)     == [present |-> TRUE,  v |-> s]

\* Python truthiness of os.getenv's result: None and "" are falsy
Truthy(x) == x.present /\ x.v # <<>>

ClassifierVars == {"PR_NUMBER", "ISSUE_NUMBER", "PUSH_BRANCH", "WORKFLOW_NAME"}

OtherVars ==
    {"TELEGRAM_BOT_TOKEN", "TELEGRAM_CHAT_ID", "TELEGRAM_THREAD_ID",
     "GITHUB_REPOSITORY", "GITHUB_ACTOR",
     "PR_TITLE", "PR_URL", "BASE_REF", "HEAD_REF", "PR_ACTION", "PR_MERGED",
     "ISSUE_TITLE", "ISSUE_URL", "ISSUE_ACTION",
     "WORKFLOW_CONCLUSION", "WORKFLOW_EVENT", "WORKFLOW_BRANCH", "WORKFLOW_URL"}

EnvNames == {"EVENT_TYPE"} \cup ClassifierVars \cup OtherVars

\* The non-empty values a variable takes: the words and numbers the code
\* looks at, and for every other variable a placeholder word of its own
\* (its name).
Base(n) ==
    CASE n = "TELEGRAM_THREAD_ID" -> Value(<<"4", "2">>)
      [] n = "PR_ACTION"          -> Value(<<"closed">>)
      [] n = "PR_MERGED"          -> Value(<<"true">>)
      [] n = "EVENT_TYPE"         -> Value(<<"release">>)
      [] OTHER                    -> Value(<<n>>)

Dom(n) ==
    {NoneVal, EmptyVal, Base(n)} \cup
    CASE n = "TELEGRAM_THREAD_ID" -> {Value(<<"0", "7">>), Value(<<"t", "1">>)}
      [] n = "PR_ACTION"          -> {Value(<<"synchronize">>), Value(<<"opened">>)}
      [] n = "PR_MERGED"          -> {Value(<<"false">>)}
      [] n = "EVENT_TYPE"         -> {Value(<<"pull_request">>), Value(<<"issues">>),
                                      Value(<<"push">>), Value(<<"workflow_run">>)}
      [] OTHER                    -> {}

\* mutant: the requirement check tests "value is None" instead of "not value"
get_env_var_unset_only(e, name, required) ==
    [value |-> e[name], exits |-> required /\ ~e[name].present]

\* get_env_var(name, required) in the environment e: the value os.getenv
\* returns, and whether the call ends the process with sys.exit(1)
get_env_var(e, name, required) ==
    [value |-> e[name], exits |-> required /\ ~Truthy(e[name])]

\* mutant: the parameter's default is required=False
RequiredDefaultsToFalse(n) == [name |-> n, required |-> FALSE]

\* a read of main(): get_env_var(name) or get_env_var(name, required=False)
Required(n) == [name |-> n, required |-> TRUE]
Optional(n) == [name |-> n, required |-> FALSE]

\* the values os.getenv can return for n: the one it returned before, or
\* any value of the variable
Getenv(e, s, n) == IF n \in s THEN {e[n]} ELSE Dom(n)

RECURSIVE ReadAll(_, _, _)
\* A run of get_env_var calls, in order, from the environment e with the
\* names s seen: every way it can go.  exits: one of the calls ended the
\* process, and the calls after it were not made.
ReadAll(e, s, reads) ==
    IF reads = <<>> THEN {[env |-> e, seen |-> s, exits |-> FALSE]}
    ELSE LET n == Head(reads).name
         IN  UNION { LET e2 == [e EXCEPT ![n] = v]
                         s2 == s \cup {n}
                     IN  IF get_env_var(e2, n, Head(reads).required).exits
                         THEN {[env |-> e2, seen |-> s2, exits |-> TRUE]}
                         ELSE ReadAll(e2, s2, Tail(reads))
                     : v \in Getenv(e, s, n) }

\* ------------------------------------------------------------------ notifier
Digits == {"0", "1", "2", "3", "4", "5", "6", "7", "8", "9"}

\* int(thread_id) succeeds (texts of the model: decimal digits only)
ParsesAsInt(s) == s # <<>> /\ \A i \in 1..Len(s) : s[i] \in Digits

RECURSIVE IntText(_)
\* str(int(s)), as urlencode writes the number: no leading zeros
IntText(s) == IF Len(s) > 1 /\ Head(s) = "0" THEN IntText(Tail(s)) ELSE s

\* lines 134-155: the request send_telegram_message builds
Request(p_token, p_chat, p_message, p_thread) ==
    [url        |-> <<"https://api.telegram.org/bot">> \o p_token.v \o <<"/sendMessage">>,
     chat_id    |-> p_chat.v,
     text       |-> p_message,
     parse_mode |-> "HTML",
     has_thread |-> Truthy(p_thread),
     message_thread_id |->
        IF ~Truthy(p_thread) THEN <<>>
        ELSE IF ParsesAsInt(p_thread.v) THEN IntText(p_thread.v)
        ELSE p_thread.v]

\* What urlopen and the provider can do with the POST: urlopen raises
\* (transport or HTTP error), the body is not JSON, the body is JSON of
\* type jtype, and for an object the value of its "ok" member (missing,
\* true, false, 0 or 1).
NoResponse == [outcome |-> "none", jtype |-> "none", ok |-> "none"]

Responses ==
    { [outcome |-> "exception", jtype |-> "none", ok |-> "none"],
      [outcome |-> "not_json",  jtype |-> "none", ok |-> "none"] }
    \cup { [outcome |-> "json", jtype |-> ty, ok |-> "none"] :
             ty \in {"array"} }
    \cup { [outcome |-> "json", jtype |-> "object", ok |-> o] :
             o \in {"absent", "true", "false", "zero", "one"} }

\* Python truthiness of result.get('ok')
OkTruthy(o) == o \notin {"absent", "false", "zero"}

\* mutant: any JSON answer that does not say "ok": false counts as sent
InterpretLenient(r) == r.outcome = "json" /\ r.ok # "false"

\* lines 157-168: the value send_telegram_message returns for response r
Interpret(r) ==
    IF r.outcome = "exception" THEN FALSE               \* urlopen raised
    ELSE IF r.outcome = "not_json" THEN FALSE           \* json.loads raised
    ELSE IF r.jtype # "object" THEN FALSE               \* result.get raised
    ELSE OkTruthy(r.ok)

\* ------------------------------------------------- values of PUSH_COMMITS
CommitA ==
    Commit(JStr(<<"a", "b", "c", "d", "e", "f", "1", "2", "3">>),
           JStr(<<"f", "i", "x", "\n", "b", "u", "g">>),
           Author(JAbsent, JStr(<<"alice">>)))
CommitB ==
    Commit(JStr(<<"9", "8", "7">>), JStr(<<"B">>), Author(JStr(<<"bob">>), JStr(<<"Bob">>)))

BasePayload == PayloadJson("array", <<CommitA>>)

\* PUSH_COMMITS in a run of main(): unset, empty, not JSON, arrays of
\* commits, a non-array, entries that are not commit objects
RunPayloads ==
    { PayloadAbsent, PayloadEmpty, PayloadInvalid, BasePayload,
      PayloadJson("array", <<>>),
      PayloadJson("array", <<CommitB, CommitA>>),
      PayloadJson("object", <<>>),
      PayloadJson("array", <<CommitA, EntryOfType("number")>>),
      PayloadJson("array", <<Commit(JNull, JNull, AuthorOfType("null")), CommitB>>) }

\* ---------------------------------------------------------------- main()
Exit(code) == pc' = "exited" /\ exit_code' = code

\* lines 174-185
ReadConfig ==
    /\ pc = "start"
    /\ \E r \in ReadAll(env, seen,
                        << Required("TELEGRAM_BOT_TOKEN"), Required("TELEGRAM_CHAT_ID"),
                           Optional("TELEGRAM_THREAD_ID"), Required("GITHUB_REPOSITORY"),
                           Required("GITHUB_ACTOR"), Optional("EVENT_TYPE") >>) :
         /\ env' = r.env
         /\ seen' = r.seen
         /\ IF r.exits
            THEN /\ Exit(1)
                 /\ UNCHANGED <<bot_token, chat_id, thread_id, repo, actor, event_type>>
            ELSE /\ bot_token'  = r.env["TELEGRAM_BOT_TOKEN"]
                 /\ chat_id'    = r.env["TELEGRAM_CHAT_ID"]
                 /\ thread_id'  = r.env["TELEGRAM_THREAD_ID"]
                 /\ repo'       = r.env["GITHUB_REPOSITORY"]
                 /\ actor'      = r.env["GITHUB_ACTOR"]
                 /\ event_type' = r.env["EVENT_TYPE"]
                 /\ pc' = "classify"
                 /\ UNCHANGED exit_code
    /\ UNCHANGED <<push_commits, kind, commits_list, message, posts, response,
                   success, uncaught>>

\* mutant: the issue rule is tested before the pull-request rule
BranchesIssueFirst ==
    << [kind |-> "issues",       var |-> "ISSUE_NUMBER"],
       [kind |-> "pull_request", var |-> "PR_NUMBER"],
       [kind |-> "push",         var |-> "PUSH_BRANCH"],
       [kind |-> "workflow_run", var |-> "WORKFLOW_NAME"] >>

\* the if/elif chain of lines 187, 200, 209, 216: each condition is
\* event_type == kind or get_env_var(var, required=False)
Branches ==
    << [kind |-> "pull_request", var |-> "PR_NUMBER"],
       [kind |-> "issues",       var |-> "ISSUE_NUMBER"],
       [kind |-> "push",         var |-> "PUSH_BRANCH"],
       [kind |-> "workflow_run", var |-> "WORKFLOW_NAME"] >>

RECURSIVE Chain(_, _, _, _)
\* The chain from condition i on: every way it can go.  "or" asks for the
\* variable only when the hint is not the kind's, and a condition is
\* evaluated only when those before it were false; the else branch of
\* line 226 is "unknown".
Chain(hint, e, s, i) ==
    IF i > Len(Branches) THEN {[env |-> e, seen |-> s, kind |-> "unknown"]}
    ELSE IF hint = Value(<<Branches[i].kind>>)
         THEN {[env |-> e, seen |-> s, kind |-> Branches[i].kind]}
    ELSE LET n == Branches[i].var
         IN  UNION { LET e2 == [e EXCEPT ![n] = v]
                         s2 == s \cup {n}
                     IN  IF Truthy(get_env_var(e2, n, FALSE).value)
                         THEN {[env |-> e2, seen |-> s2, kind |-> Branches[i].kind]}
                         ELSE Chain(hint, e2, s2, i + 1)
                     : v \in Getenv(e, s, n) }

\* lines 187-228: which branch runs; the else branch exits
Classify ==
    /\ pc = "classify"
    /\ \E r \in Chain(event_type, env, seen, 1) :
         /\ env' = r.env
         /\ seen' = r.seen
         /\ kind' = r.kind
         /\ IF r.kind = "unknown" THEN Exit(1) ELSE pc' = "branch" /\ UNCHANGED exit_code
    /\ UNCHANGED <<push_commits, bot_token, chat_id, thread_id, repo, actor,
                   event_type, commits_list, message, posts, response, success,
                   uncaught>>

\* lines 189-198
PullRequestBranch ==
    /\ pc = "branch" /\ kind = "pull_request"
    /\ \E r \in ReadAll(env, seen,
                        << Required("PR_NUMBER"), Required("PR_TITLE"), Required("PR_URL"),
                           Required("BASE_REF"), Required("HEAD_REF"),
                           Required("PR_ACTION"), Optional("PR_MERGED") >>) :
         /\ env' = r.env
         /\ seen' = r.seen
         /\ IF r.exits
            THEN Exit(1) /\ UNCHANGED message
            ELSE LET merged == r.env["PR_MERGED"] = Value(<<"true">>)
                     status == get_pr_status(r.env["PR_ACTION"].v, merged)
                 IN  /\ message' = format_pr_message(repo.v, actor.v,
                                       r.env["PR_NUMBER"].v, r.env["PR_TITLE"].v,
                                       r.env["PR_URL"].v, r.env["BASE_REF"].v,
                                       r.env["HEAD_REF"].v, status)
                     /\ pc' = "send"
                     /\ UNCHANGED exit_code
    /\ UNCHANGED <<push_commits, bot_token, chat_id, thread_id, repo, actor,
                   event_type, kind, commits_list, posts, response, success, uncaught>>

\* lines 202-207
IssueBranch ==
    /\ pc = "branch" /\ kind = "issues"
    /\ \E r \in ReadAll(env, seen,
                        << Required("ISSUE_NUMBER"), Required("ISSUE_TITLE"),
                           Required("ISSUE_URL"), Required("ISSUE_ACTION") >>) :
         /\ env' = r.env
         /\ seen' = r.seen
         /\ IF r.exits
            THEN Exit(1) /\ UNCHANGED message
            ELSE /\ message' = format_issue_message(repo.v, actor.v,
                                   r.env["ISSUE_NUMBER"].v, r.env["ISSUE_TITLE"].v,
                                   r.env["ISSUE_URL"].v, r.env["ISSUE_ACTION"].v)
                 /\ pc' = "send"
                 /\ UNCHANGED exit_code
    /\ UNCHANGED <<push_commits, bot_token, chat_id, thread_id, repo, actor,
                   event_type, kind, commits_list, posts, response, success, uncaught>>

\* lines 211-214; an exception format_push_message lets through ends the
\* process with a traceback and exit status 1
PushBranch ==
    /\ pc = "branch" /\ kind = "push"
    /\ \E r \in ReadAll(env, seen, << Required("PUSH_BRANCH") >>) :
         /\ env' = r.env
         /\ IF r.exits
            THEN /\ seen' = r.seen
                 /\ Exit(1)
                 /\ UNCHANGED <<push_commits, message, commits_list, uncaught>>
            ELSE \E commits_data \in RunPayloads :
                   LET f == format_push_message(repo.v, actor.v, r.env["PUSH_BRANCH"].v,
                                                commits_data)
                   IN  /\ seen' = r.seen \cup {"PUSH_COMMITS"}
                       /\ push_commits' = commits_data
                       /\ commits_list' = f.lines
                       /\ message' = f.msg
                       /\ uncaught' = f.exc
                       /\ IF f.exc = "none" THEN pc' = "send" /\ UNCHANGED exit_code
                          ELSE Exit(1)
    /\ UNCHANGED <<bot_token, chat_id, thread_id, repo, actor, event_type, kind,
                   posts, response, success>>

\* get_env_var(name, required=False) or default
OrDefault(e, name, default) ==
    IF Truthy(get_env_var(e, name, FALSE).value) THEN e[name].v ELSE default

\* lines 218-224
WorkflowBranch ==
    /\ pc = "branch" /\ kind = "workflow_run"
    /\ \E r \in ReadAll(env, seen,
                        << Required("WORKFLOW_NAME"), Required("WORKFLOW_CONCLUSION"),
                           Optional("WORKFLOW_EVENT"), Optional("WORKFLOW_BRANCH"),
                           Optional("WORKFLOW_URL") >>) :
         /\ env' = r.env
         /\ seen' = r.seen
         /\ IF r.exits
            THEN Exit(1) /\ UNCHANGED message
            ELSE /\ message' = format_workflow_message(repo.v, actor.v,
                                   r.env["WORKFLOW_NAME"].v, r.env["WORKFLOW_CONCLUSION"].v,
                                   OrDefault(r.env, "WORKFLOW_EVENT", <<"unknown">>),
                                   OrDefault(r.env, "WORKFLOW_BRANCH", <<"unknown">>),
                                   OrDefault(r.env, "WORKFLOW_URL", <<"#">>))
                 /\ pc' = "send"
                 /\ UNCHANGED exit_code
    /\ UNCHANGED <<push_commits, bot_token, chat_id, thread_id, repo, actor,
                   event_type, kind, commits_list, posts, response, success, uncaught>>

\* mutant: a failed attempt is tried once more
SendRetry ==
    /\ pc = "send"
    /\ \E r \in Responses :
         /\ posts' = Append(posts, Request(bot_token, chat_id, message, thread_id))
         /\ response' = r
         /\ success' = Interpret(r)
         /\ pc' = IF Interpret(r) \/ Len(posts) >= 1 THEN "sent" ELSE "send"
    /\ UNCHANGED <<env, push_commits, seen, bot_token, chat_id, thread_id, repo, actor,
                   event_type, kind, commits_list, message, uncaught, exit_code>>

\* line 231 and send_telegram_message, lines 132-168: one urlopen call,
\* whose outcome the provider chooses
Send ==
    /\ pc = "send"
    /\ \E r \in Responses :
         /\ posts' = Append(posts, Request(bot_token, chat_id, message, thread_id))
         /\ response' = r
         /\ success' = Interpret(r)
    /\ pc' = "sent"
    /\ UNCHANGED <<env, push_commits, seen, bot_token, chat_id, thread_id, repo, actor,
                   event_type, kind, commits_list, message, uncaught, exit_code>>

\* mutant: the result of the send is ignored
ExitStatusZero(ok) == 0

\* lines 233-234: sys.exit(1) unless success, else main() returns
ExitStatus(ok) == IF ok THEN 0 ELSE 1

\* lines 231-234, after send_telegram_message has returned
Finish ==
    /\ pc = "sent"
    /\ Exit(ExitStatus(success))
    /\ UNCHANGED <<env, push_commits, seen, bot_token, chat_id, thread_id, repo, actor,
                   event_type, kind, commits_list, message, posts, response, success,
                   uncaught>>

InitLocals ==
    /\ bot_token = NoneVal /\ chat_id = NoneVal /\ thread_id = NoneVal
    /\ event_type = NoneVal
    /\ kind = "none"
    /\ commits_list = <<>>
    /\ message = <<>>
    /\ posts = <<>>
    /\ response = NoResponse
    /\ success = FALSE
    /\ uncaught = "none"
    /\ exit_code = -1

\* main() is entered: nothing of the environment was read yet
Init ==
    /\ env = [n \in EnvNames |-> NoneVal]
    /\ push_commits = PayloadAbsent
    /\ seen = {}
    /\ pc = "start"
    /\ repo = NoneVal /\ actor = NoneVal
    /\ InitLocals

Next ==
    \/ ReadConfig
    \/ Classify
    \/ PullRequestBranch
    \/ IssueBranch
    \/ PushBranch
    \/ WorkflowBranch
    \/ Send
    \/ Finish

Spec == Init /\ [][Next]_vars

\* --------------------------------------------- the formatters on their own
\* Each formatter applied to inputs drawn from bounded sets: every shape of
\* PUSH_COMMITS, and free text holding HTML-special characters in one input.
SeqsUpTo(S, n) == UNION {[1..k -> S] : k \in 0..n}

Alphabet == {"a", "<", ">", "&", "\"", "'", "\n"}
Texts == SeqsUpTo(Alphabet, MaxTextLen)

FormatEnv == [n \in EnvNames |-> Base(n)]

\* the array entries json.loads can hand to the loop: commit objects, other
\* JSON types, and objects whose id, message or author has another type
Entries ==
    {CommitA, CommitB}
    \cup {EntryOfType(ty) : ty \in {"number", "string", "null", "array"}}
    \cup {Commit(i, CommitA.message, CommitA.author) :
            i \in {JAbsent, JNull, JZero, JNumber, JArray, JObject}}
    \cup {Commit(CommitB.id, m, CommitB.author) : m \in {JAbsent, JNull, JNumber, JArray}}
    \cup {Commit(CommitB.id, CommitB.message, AuthorOfType(ty)) :
            ty \in {"absent", "null", "string", "number", "array"}}
    \cup {Commit(CommitB.id, CommitB.message, a) :
            a \in {Author(JNull, JAbsent), Author(JStr(<<>>), JStr(<<"al">>)),
                   Author(JNumber, JStr(<<"al">>)), Author(JZero, JNumber),
                   Author(JArray, JObject)}}
    \cup {Commit(JNull, JNull, AuthorOfType("null"))}

PushPayloads ==
    {PayloadAbsent, PayloadEmpty, PayloadInvalid}
    \cup {PayloadJson(ty, <<>>) : ty \in {"null", "number", "boolean", "object"}}
    \cup {PayloadJson("string", c) : c \in SeqsUpTo({EntryOfType("string")}, MaxBad)}
    \cup {PayloadJson("array", c) : c \in SeqsUpTo({CommitA, CommitB}, MaxCommits)}
    \cup {PayloadJson("array", c) : c \in SeqsUpTo(Entries, MaxBad)}

\* a one-commit PUSH_COMMITS with the text t in one field
TextPayloads(t) ==
    {PayloadJson("array", <<c>>) :
        c \in {Commit(JStr(t), CommitA.message, CommitA.author),
               Commit(CommitA.id, JStr(t), CommitA.author),
               Commit(CommitA.id, CommitA.message, Author(JStr(t), JAbsent)),
               Commit(CommitA.id, CommitA.message, Author(JAbsent, JStr(t)))}}

InitFormat ==
    /\ \/ env = FormatEnv /\ push_commits \in PushPayloads
       \/ \E n \in ClassifierVars \cup OtherVars, t \in Texts :
            /\ env = [FormatEnv EXCEPT ![n] = Value(t)]
            /\ push_commits = BasePayload
       \/ \E t \in Texts :
            /\ env = FormatEnv
            /\ push_commits \in TextPayloads(t)
    /\ seen = EnvNames \cup {"PUSH_COMMITS"}
    /\ pc = "format"
    /\ repo = env["GITHUB_REPOSITORY"] /\ actor = env["GITHUB_ACTOR"]
    /\ InitLocals

Formatted(k) ==
    /\ pc' = "formatted"
    /\ kind' = k
    /\ UNCHANGED <<env, push_commits, seen, bot_token, chat_id, thread_id, repo, actor,
                   event_type, posts, response, success, exit_code>>

FormatPR ==
    /\ pc = "format"
    /\ message' = format_pr_message(repo.v, actor.v, env["PR_NUMBER"].v, env["PR_TITLE"].v,
                      env["PR_URL"].v, env["BASE_REF"].v, env["HEAD_REF"].v,
                      env["PR_ACTION"].v)
    /\ Formatted("pull_request")
    /\ UNCHANGED <<commits_list, uncaught>>

FormatIssue ==
    /\ pc = "format"
    /\ message' = format_issue_message(repo.v, actor.v, env["ISSUE_NUMBER"].v,
                      env["ISSUE_TITLE"].v, env["ISSUE_URL"].v, env["ISSUE_ACTION"].v)
    /\ Formatted("issues")
    /\ UNCHANGED <<commits_list, uncaught>>

FormatPush ==
    /\ pc = "format"
    /\ LET r == format_push_message(repo.v, actor.v, env["PUSH_BRANCH"].v, push_commits)
       IN  /\ commits_list' = r.lines
           /\ message' = r.msg
           /\ uncaught' = r.exc
    /\ Formatted("push")

FormatWorkflow ==
    /\ pc = "format"
    /\ message' = format_workflow_message(repo.v, actor.v, env["WORKFLOW_NAME"].v,
                      env["WORKFLOW_CONCLUSION"].v, env["WORKFLOW_EVENT"].v,
                      env["WORKFLOW_BRANCH"].v, env["WORKFLOW_URL"].v)
    /\ Formatted("workflow_run")
    /\ UNCHANGED <<commits_list, uncaught>>

NextFormat == FormatPR \/ FormatIssue \/ FormatPush \/ FormatWorkflow

SpecFormat == InitFormat /\ [][NextFormat]_vars

\* ======================================================== the properties
\* What the specification says of the environment, stated on what the run
\* has read of it.  A variable is given when it is set to a non-empty
\* value, missing when it is unset or empty; one the run has not read is
\* neither.
Given(n)   == n \in seen /\ env[n].present /\ env[n].v # <<>>
Missing(n) == n \in seen /\ ~(env[n].present /\ env[n].v # <<>>)

CommonRequired ==
    {"TELEGRAM_BOT_TOKEN", "TELEGRAM_CHAT_ID", "GITHUB_REPOSITORY", "GITHUB_ACTOR"}

Kinds == {"pull_request", "issues", "push", "workflow_run"}

\* the classifier's rules in their order of precedence (4.2)
Rules ==
    << [kind |-> "pull_request", var |-> "PR_NUMBER"],
       [kind |-> "issues",       var |-> "ISSUE_NUMBER"],
       [kind |-> "push",         var |-> "PUSH_BRANCH"],
       [kind |-> "workflow_run", var |-> "WORKFLOW_NAME"] >>

HintIs(k) == "EVENT_TYPE" \in seen /\ env["EVENT_TYPE"] = Value(<<k>>)

RuleMatches(i) == HintIs(Rules[i].kind) \/ Given(Rules[i].var)
RuleFails(i) ==
    "EVENT_TYPE" \in seen /\ ~HintIs(Rules[i].kind) /\ Missing(Rules[i].var)

\* the kind of the first matching rule, "unknown" when every rule fails,
\* "undetermined" while what was read does not decide it
ExpectedKind ==
    IF \E i \in 1..Len(Rules) : RuleMatches(i) /\ \A j \in 1..(i - 1) : RuleFails(j)
    THEN Rules[CHOOSE i \in 1..Len(Rules) :
                 RuleMatches(i) /\ \A j \in 1..(i - 1) : RuleFails(j)].kind
    ELSE IF \A i \in 1..Len(Rules) : RuleFails(i) THEN "unknown"
    ELSE "undetermined"

RequiredOf(k) ==
    CASE k = "pull_request" ->
           {"PR_NUMBER", "PR_TITLE", "PR_URL", "BASE_REF", "HEAD_REF", "PR_ACTION"}
      [] k = "issues"       -> {"ISSUE_NUMBER", "ISSUE_TITLE", "ISSUE_URL", "ISSUE_ACTION"}
      [] k = "push"         -> {"PUSH_BRANCH"}
      [] k = "workflow_run" -> {"WORKFLOW_NAME", "WORKFLOW_CONCLUSION"}
      [] OTHER              -> {}

OptionalOf(k) ==
    CASE k = "pull_request" -> {"PR_MERGED"}
      [] k = "push"         -> {"PUSH_COMMITS"}
      [] k = "workflow_run" -> {"WORKFLOW_EVENT", "WORKFLOW_BRANCH", "WORKFLOW_URL"}
      [] OTHER              -> {}

MissingRequired ==
    \E n \in CommonRequired \cup RequiredOf(ExpectedKind) : Missing(n)

\* C1: when a variable required on the path taken is missing, or no
\* classifier rule matches, the process has exited with a non-zero status,
\* and no POST was attempted then or before.
C1_ExitBeforePost ==
    (MissingRequired \/ ExpectedKind = "unknown") =>
        /\ pc = "exited"
        /\ exit_code = 1
        /\ posts = <<>>

C1_Witness ==
    /\ pc = "exited" /\ exit_code = 1 /\ posts = <<>>
    /\ kind = "issues" /\ Missing("ISSUE_URL") /\ Given("ISSUE_NUMBER")
    /\ \A n \in CommonRequired : Given(n)

\* the formatters whose template the message shows
FormattersOf(m) ==
    {k \in Kinds :
        /\ Len(m) >= 2
        /\ \/ k = "pull_request" /\ m[1] = Lit("<b>PR ")
           \/ k = "issues"       /\ m[1] = Lit("<b>Issue ")
           \/ k = "push"         /\ m[2] = Lit(" just pushed to branch ")
           \/ k = "workflow_run" /\ m[1] = Lit("<b>Workflow:</b> ")}

\* the variables of the event kinds other than k that no classifier rule
\* names
FieldsOfOthers(k) ==
    UNION {(RequiredOf(j) \cup OptionalOf(j)) \ ClassifierVars : j \in Kinds \ {k}}

\* the classifier variables of the rules after that of kind k
LaterRuleVars(k) ==
    {Rules[j].var : j \in {x \in 1..Len(Rules) :
                             \E i \in 1..(x - 1) : Rules[i].kind = k}}

\* C2: the branch taken is that of the first matching rule (pull request,
\* issue, push, workflow), whatever the hint and the later rules'
\* variables are; a message, once built, comes from exactly the formatter
\* of that kind, and the run has read no field of another kind.
C2_FirstMatchWins ==
    /\ kind # "none" => kind = ExpectedKind
    /\ kind \in Kinds => seen \cap (FieldsOfOthers(kind) \cup LaterRuleVars(kind)) = {}
    /\ message # <<>> => FormattersOf(message) = {kind}

C2_Witness ==
    /\ pc = "sent" /\ kind = "pull_request"
    /\ HintIs("push") /\ Given("PR_NUMBER")
    /\ message # <<>>

\* C3: the exit status is 0 exactly when send_telegram_message returned
\* True, and 1 for a missing required variable, an unknown event kind and
\* a failed delivery.
C3_ExitCode ==
    pc = "exited" =>
        /\ exit_code \in {0, 1}
        /\ exit_code = 0 <=> (posts # <<>> /\ success)
        /\ MissingRequired => exit_code = 1
        /\ ExpectedKind = "unknown" => exit_code = 1
        /\ (posts # <<>> /\ ~success) => exit_code = 1

C3_Witness == pc = "exited" /\ exit_code = 0 /\ success /\ Len(posts) = 1

\* C4: at most one POST is attempted in a run, whatever the provider
\* answers: once a POST was made no step makes another, and the step after
\* the attempt ends the run.
C4_SingleAttempt ==
    /\ [](Len(posts) <= 1)
    /\ [][(posts # <<>> => posts' = posts) /\ (pc = "sent" => pc' = "exited")]_vars

C4_Witness ==
    /\ pc = "exited" /\ Len(posts) = 1
    /\ response.outcome = "exception" /\ ~success

\* C8: send_telegram_message returns True only for a JSON object whose
\* "ok" is truthy; for every other outcome it returns False, no exception
\* leaves it, and the process then exits non-zero.
C8_SuccessOnlyOnOk ==
    posts # <<>> =>
        /\ success <=> /\ response.outcome = "json"
                       /\ response.jtype = "object"
                       /\ response.ok \in {"true", "one"}
        /\ uncaught = "none"
        /\ (pc = "exited" /\ ~success) => exit_code = 1

C8_Witness ==
    /\ pc = "exited" /\ Len(posts) = 1 /\ exit_code = 1
    /\ response.outcome = "json" /\ response.jtype = "array"

IsEmpty(n) == n \in seen /\ env[n] = EmptyVal

\* C10: a variable set to the empty string behaves as an unset one: a
\* required one ends the run with status 1 before any POST, an empty
\* classifier variable does not select its rule, empty WORKFLOW_EVENT,
\* WORKFLOW_BRANCH and WORKFLOW_URL give "unknown", "unknown" and "#", and
\* an empty TELEGRAM_THREAD_ID sends no message_thread_id.
C10_EmptyIsAbsent ==
    /\ \A n \in CommonRequired \cup RequiredOf(kind) :
         IsEmpty(n) => (pc = "exited" /\ exit_code = 1 /\ posts = <<>>)
    /\ \A i \in 1..Len(Rules) :
         (IsEmpty(Rules[i].var) /\ kind = Rules[i].kind) => HintIs(Rules[i].kind)
    /\ (kind = "workflow_run" /\ message # <<>>) =>
         /\ IsEmpty("WORKFLOW_BRANCH") => message[6] = Text(<<"unknown">>)
         /\ IsEmpty("WORKFLOW_EVENT") => message[10] = Text(<<"unknown">>)
         /\ IsEmpty("WORKFLOW_URL") => message[14] = Href(<<"#">>)
    /\ (posts # <<>> /\ IsEmpty("TELEGRAM_THREAD_ID")) =>
         /\ ~posts[1].has_thread
         /\ posts[1].message_thread_id = <<>>
    /\ (kind = "push" /\ pc \in {"send", "sent"} /\ push_commits = PayloadEmpty) =>
         commits_list = <<NoCommitsLine>>

C10_Witness ==
    /\ pc = "exited" /\ kind = "workflow_run" /\ Len(posts) = 1
    /\ IsEmpty("WORKFLOW_URL") /\ IsEmpty("TELEGRAM_THREAD_ID")
    /\ message[14] = Href(<<"#">>)

\* ------------------------------------------- properties of the formatters
\* the push message after its header line
Body == SubSeq(message, 7, Len(message))

PushFormatted == pc = "formatted" /\ kind = "push"

NotProvided == ~push_commits.present \/ push_commits.text = "empty"

\* an array entry that is not a commit object, or whose id, message or
\* author is null or of another type than the specification gives it
MalformedEntry(c) ==
    \/ c.shape # "object"
    \/ c.id.t \notin {"absent", "string"}
    \/ c.message.t \notin {"absent", "string"}
    \/ c.author.t \notin {"absent", "object"}

WellFormedCommit(c) ==
    /\ ~MalformedEntry(c)
    /\ c.author.username.t \in {"absent", "string"}
    /\ c.author.name.t \in {"absent", "string"}

\* a non-empty PUSH_COMMITS that is not JSON, or JSON of an unexpected shape
MalformedPayload ==
    /\ ~NotProvided
    /\ \/ push_commits.text = "invalid"
       \/ push_commits.t # "array"
       \/ \E i \in 1..Len(push_commits.items) : MalformedEntry(push_commits.items[i])

\* C5: for every non-empty PUSH_COMMITS that is invalid JSON or JSON of an
\* unexpected shape, format_push_message raises nothing and returns a
\* message whose body is the line "-- error parsing commits --".
C5_MalformedRecovered ==
    (PushFormatted /\ MalformedPayload) => (uncaught = "none" /\ Body = ErrorLine)

\* C6 as written: the body is the error line whenever PUSH_COMMITS is
\* absent or fails to parse, and the no-commits line exactly when parsing
\* succeeds and yields no entry (read widely: an empty array or an empty
\* JSON string).
C6_AbsentIsParseError ==
    PushFormatted =>
        /\ (NotProvided \/ push_commits.text = "invalid") => Body = ErrorLine
        /\ Body = NoCommitsLine <=>
             /\ ~NotProvided
             /\ push_commits.t \in {"array", "string"}
             /\ push_commits.items = <<>>

\* C6 as the code has it: the body is the error line whenever PUSH_COMMITS
\* is non-empty text that fails to parse; it is the no-commits line exactly
\* when PUSH_COMMITS is absent or empty, or parses to an empty array or an
\* empty JSON string; a sentinel line never stands next to another line.
C6_SentinelLines ==
    PushFormatted =>
        /\ push_commits.text = "invalid" => Body = ErrorLine
        /\ Body = NoCommitsLine <=>
             \/ NotProvided
             \/ push_commits.t \in {"array", "string"} /\ push_commits.items = <<>>
        /\ \A i \in 1..Len(Body) :
             Body[i] \in {ErrorLine[1], NoCommitsLine[1]} => Len(Body) = 1

C6_Witness ==
    /\ PushFormatted /\ push_commits = PayloadAbsent
    /\ Body = NoCommitsLine /\ uncaught = "none"

\* the line the specification gives a well-formed commit (4.5, step 3)
ExpectedAuthor(c) ==
    IF c.author.t = "object" /\ c.author.username.t = "string" /\ c.author.username.s # <<>>
    THEN c.author.username.s
    ELSE IF c.author.t = "object" /\ c.author.name.t = "string" /\ c.author.name.s # <<>>
    THEN c.author.name.s
    ELSE <<"unknown">>

ExpectedLine(c) ==
    << Lit("- <a href=\""),
       Href(<<"https://github.com/">> \o env["GITHUB_REPOSITORY"].v \o <<"/commit/">> \o c.id.s),
       Lit("\">"),
       Text(SubSeq(c.id.s, 1, Min(7, Len(c.id.s)))),
       Lit("</a> -- "),
       Text(escape([i \in 1..Len(c.message.s) |->
                      IF c.message.s[i] = "\n" THEN " " ELSE c.message.s[i]])),
       Lit(" (by "), Text(escape(ExpectedAuthor(c))), Lit(")") >>

\* the rendered commit lines: commits_list without a sentinel line
CommitLines == SelectSeq(commits_list, LAMBDA l : l \notin {ErrorLine, NoCommitsLine})

WellFormedArray ==
    /\ ~NotProvided /\ push_commits.text = "json" /\ push_commits.t = "array"
    /\ \A i \in 1..Len(push_commits.items) : WellFormedCommit(push_commits.items[i])

\* C7: for an array of n well-formed commits exactly min(n, 10) commit
\* lines are rendered, line i from the i-th entry, and the message body is
\* those lines in that order.
C7_FirstTenInOrder ==
    (PushFormatted /\ WellFormedArray) =>
        /\ uncaught = "none"
        /\ Len(CommitLines) = Min(Len(push_commits.items), 10)
        /\ \A i \in 1..Len(CommitLines) : CommitLines[i] = ExpectedLine(push_commits.items[i])
        /\ CommitLines # <<>> => Body = JoinLines(CommitLines)

C7_Witness ==
    /\ PushFormatted /\ WellFormedArray
    /\ Len(push_commits.items) = 11
    /\ push_commits.items[1] # push_commits.items[2]
    /\ push_commits.items[11] # push_commits.items[10]
    /\ Len(CommitLines) = 10

\* the character references html.escape writes
Entities ==
    { <<"&", "a", "m", "p", ";">>, <<"&", "l", "t", ";">>, <<"&", "g", "t", ";">>,
      <<"&", "q", "u", "o", "t", ";">>, <<"&", "#", "x", "2", "7", ";">> }

\* s holds <, > and " only in escaped form, and every & opens a reference
IsEscaped(s) ==
    \A i \in 1..Len(s) :
        /\ s[i] \notin {"<", ">", "\""}
        /\ s[i] = "&" =>
             \E e \in Entities :
                /\ i + Len(e) - 1 <= Len(s)
                /\ SubSeq(s, i, i + Len(e) - 1) = e

\* the URL values handed to the formatters
UrlValues ==
    {env["PR_URL"].v, env["ISSUE_URL"].v, env["WORKFLOW_URL"].v}
    \cup {CommitUrl(repo.v, IdText(push_commits.items[i].id)) :
            i \in 1..Len(push_commits.items)}

\* C9: in the output of each of the four formatters every text span
\* outside an href holds <, >, & and " in escaped form only, and the URLs
\* inside href attributes are the input URLs unchanged.
C9_TextSpansEscaped ==
    (pc = "formatted" /\ uncaught = "none") =>
        \A i \in 1..Len(message) :
            /\ message[i].k = "text" => IsEscaped(message[i].s)
            /\ message[i].k = "href" => message[i].s \in UrlValues

====
